---- MODULE Spec2Model ----
(***************************************************************************)
(* Trust Pooler reference implementation (main.cpp): the Mutex pool and    *)
(* the Long/Short pool, their registration, level enumeration, settlement  *)
(* and pro-forma valuation.                                                *)
(*                                                                         *)
(* A double is modelled as an extended rational [n, d]: d > 0 is the       *)
(* finite value n/d in lowest terms, d = 0 is +Inf (n = 1), -Inf (n = -1)  *)
(* or NaN (n = 0), with the IEEE-754 rules for the special values.  The    *)
(* rounding of finite results (relative error 2^-53) is not modelled; the  *)
(* sign of a zero is not modelled either: no divisor of the program is a   *)
(* negative zero (TotalPool and TotalWinningAmount are sums that start at  *)
(* +0., and the amounts are the registered values).                        *)
(***************************************************************************)
EXTENDS Integers, Sequences, FiniteSets, TLC

\* ------------------------------------------------------------ bounds

\* most stakes one pool holds (MakeRisk stops being called after that)
MaxRisks == 2

\* ------------------------------------------------------------ doubles

Abs(i) == IF i < 0 THEN -i ELSE i

Sign(i) == IF i < 0 THEN -1 ELSE IF i = 0 THEN 0 ELSE 1

RECURSIVE GCD(_, _)
GCD(a, b) == IF b = 0 THEN a ELSE GCD(b, a % b)

NaN == [n |-> 0, d |-> 0]

Inf(s) == [n |-> s, d |-> 0]

\* n/d with d # 0, in lowest terms with a positive denominator
Ratio(n, d) ==
    LET g == GCD(Abs(n), Abs(d))
    IN  [n |-> Sign(d) * (n \div g), d |-> Abs(d) \div g]

\* an int converted to double
Double(i) == [n |-> i, d |-> 1]

IsNaN(a) == a.d = 0 /\ a.n = 0

IsInf(a) == a.d = 0 /\ a.n # 0

IsFinite(a) == a.d > 0

\* a + b
DAdd(a, b) ==
    IF IsNaN(a) \/ IsNaN(b) THEN NaN
    ELSE IF IsInf(a) /\ IsInf(b) THEN (IF a.n = b.n THEN a ELSE NaN)
    ELSE IF IsInf(a) THEN a
    ELSE IF IsInf(b) THEN b
    ELSE Ratio(a.n * b.d + b.n * a.d, a.d * b.d)

\* -a
DNeg(a) == [n |-> -a.n, d |-> a.d]

\* a - b
DSub(a, b) == DAdd(a, DNeg(b))

\* a * b
DMul(a, b) ==
    IF IsNaN(a) \/ IsNaN(b) THEN NaN
    ELSE IF IsInf(a) \/ IsInf(b)
         THEN (IF a.n = 0 \/ b.n = 0 THEN NaN ELSE Inf(Sign(a.n) * Sign(b.n)))
    ELSE Ratio(a.n * b.n, a.d * b.d)

\* a / b
DDiv(a, b) ==
    IF IsNaN(a) \/ IsNaN(b) THEN NaN
    ELSE IF IsInf(a) THEN (IF IsInf(b) THEN NaN
                           ELSE Inf(a.n * (IF b.n < 0 THEN -1 ELSE 1)))
    ELSE IF IsInf(b) THEN Double(0)
    ELSE IF b.n = 0 THEN (IF a.n = 0 THEN NaN ELSE Inf(Sign(a.n)))
    ELSE Ratio(a.n * b.d, a.d * b.n)

\* a < b (false when either is NaN)
DLess(a, b) ==
    IF IsNaN(a) \/ IsNaN(b) THEN FALSE
    ELSE IF IsInf(a) THEN a.n < 0 /\ ~(IsInf(b) /\ b.n < 0)
    ELSE IF IsInf(b) THEN b.n > 0
    ELSE a.n * b.d < b.n * a.d

\* a == b (false when either is NaN)
DEq(a, b) == ~IsNaN(a) /\ ~IsNaN(b) /\ a = b

\* a >= b (false when either is NaN)
DGeq(a, b) == DEq(a, b) \/ DLess(b, a)

\* fabs(a)
Fabs(a) == [n |-> Abs(a.n), d |-> a.d]

Cent == [n |-> 1, d |-> 100]

Close(a, b) == DLess(Fabs(DSub(a, b)), Cent)


Zero == Double(0)

One == Double(1)

\* ------------------------------------------------------------ inputs

\* the pool kinds: the D of Pool<D, EVENT>
PoolKinds == {"MutexPool", "LongShortPool"}

\* the categories staked on and closed at (MutexEvent::Level is a string)
Categories == {"default", "no_default"}

\* the sides and strike prices staked on
Strikes == {<<"Long", 54>>, <<"Long", 55>>, <<"Short", 56>>}

\* the closing prices a Long/Short pool is settled at
ClosingPrices == {53, 55, 56}

\* the amounts a caller registers (MakeRisk takes any double)
Amounts == {-1, 0, 1, 3}

\* the amounts of the hypothetical stake of a pro-forma valuation
ProFormaAmounts == {1}

\* what a read of the end node of an empty std::set<int> may yield
IndeterminateLevels == {0, 55}

\* the value of a double member that no constructor initialised
Indeterminate == [n |-> 0, d |-> -1]

\* ------------------------------------------------------------ events

DefaultTX ==
    [id |-> 0, amount |-> Zero, client_account |-> "", pool_account |-> "",
     payout |-> Zero]

PoolEvent == [pool_share |-> Zero, winnings_share |-> Zero, payoff |-> Zero]

\* MutexEvent( const std::string& e )
MutexEvent(e) == PoolEvent @@ [event |-> e, tx |-> DefaultTX]

\* LongShortEvent( Side s, Price p ): every member with an initialiser is
\* zero, inverse_distance_to_pin_normalised has none
LongShortEvent(s, p) ==
    PoolEvent @@
    [side |-> s, price |-> p, tx |-> DefaultTX,
     prima_facie_payoff |-> Zero, prima_facie_payout |-> Zero,
     inverse_distance_to_the_pin |-> Zero,
     inverse_distance_to_pin_normalised |-> Indeterminate,
     adjusted_amount |-> Zero]

\* Risk{}: the value-initialised event of pool kind d
DefaultRisk(d) ==
    IF d = "MutexPool" THEN MutexEvent("")
    ELSE [LongShortEvent("Long", 0) EXCEPT !.inverse_distance_to_pin_normalised = Zero]

\* the event templates a caller of pool kind d passes
Events(d) ==
    IF d = "MutexPool" THEN {MutexEvent(e) : e \in Categories}
    ELSE {LongShortEvent(s[1], s[2]) : s \in Strikes}

\* the closing levels a pool of kind d is settled at
Levels(d) == IF d = "MutexPool" THEN Categories ELSE ClosingPrices

\* MutexEvent::IsWinner / LongShortEvent::IsWinner
IsWinner(d, risk, level) ==
    IF d = "MutexPool" THEN risk.event = level
    ELSE IF risk.side = "Long" /\ level > risk.price THEN TRUE
    ELSE IF risk.side = "Short" /\ level < risk.price THEN TRUE
    ELSE FALSE

\* MutexEvent::WinningAmount / LongShortEvent::WinningAmount
WinningAmount(d, risk, level) ==
    IF d = "MutexPool" THEN (IF level = risk.event THEN risk.tx.amount ELSE Zero)
    ELSE IF risk.side = "Long" /\ level > risk.price THEN risk.tx.amount
    ELSE IF risk.side = "Short" /\ level < risk.price THEN risk.tx.amount
    ELSE Zero

WinningDistance(risk, closing_price) ==
    Double(Abs(closing_price - risk.price))

\* LongShortEvent::WinningInverseDistance
WinningInverseDistance(risk, closing_price) ==
    IF risk.side = "Long" /\ closing_price > risk.price
    THEN DDiv(One, Double(closing_price - risk.price))
    ELSE IF risk.side = "Short" /\ closing_price < risk.price
    THEN DDiv(One, Double(risk.price - closing_price))
    ELSE One

\* MutexEvent::Category / LongShortEvent::Category
Category(d, risk) ==
    IF d = "MutexPool" THEN risk.event
    ELSE IF risk.side = "Long" THEN "Long"
    ELSE IF risk.side = "Short" THEN "Short"
    ELSE "Error"

\* MutexEvent::GetLevel / LongShortEvent::GetLevel
GetLevel(d, risk) == IF d = "MutexPool" THEN risk.event ELSE risk.price

\* ------------------------------------------------------------ pool
\* A pool value is [tx, risks]: the members of Pool<D, EVENT> that change.

fees == Ratio(3, 100)

PoolAccount == "Pool_Account_Address"

Min(S) == CHOOSE x \in S : \A y \in S : x <= y

Max(S) == CHOOSE x \in S : \A y \in S : x >= y

\* result += f[k] for the keys of S in increasing order, from acc
RECURSIVE Accumulate(_, _, _)
Accumulate(acc, f, S) ==
    IF S = {} THEN acc
    ELSE LET k == Min(S) IN Accumulate(DAdd(acc, f[k]), f, S \ {k})

MakeRiskNoIncrement(self, event, amount, who) ==
    LET risk == [event EXCEPT !.tx.id = self.tx, !.tx.amount = amount,
                              !.tx.client_account = who,
                              !.tx.pool_account = PoolAccount]
    IN  [self |-> [tx |-> self.tx, risks |-> (self.tx :> risk) @@ self.risks],
         ret |-> risk.tx.id]

\* Pool::MakeRisk: the pool after the call and the id returned
MakeRisk(self, event, amount, who) ==
    LET risk == [event EXCEPT !.tx.id = self.tx, !.tx.amount = amount,
                              !.tx.client_account = who,
                              !.tx.pool_account = PoolAccount]
    IN  [self |-> [tx |-> self.tx + 1, risks |-> (self.tx :> risk) @@ self.risks],
         ret |-> risk.tx.id]

\* Pool::TotalPool
TotalPool(self) ==
    Accumulate(Zero, [k \in DOMAIN self.risks |-> self.risks[k].tx.amount],
               DOMAIN self.risks)

\* Pool::TotalWinningAmount
TotalWinningAmount(d, self, level) ==
    Accumulate(Zero,
               [k \in DOMAIN self.risks |-> WinningAmount(d, self.risks[k], level)],
               DOMAIN self.risks)

\* Pool::Fees
Fees(self) == DMul(TotalPool(self), fees)

\* Pool::CategoryMap
CategoryMap(d, self) ==
    LET cats == {Category(d, self.risks[k]) : k \in DOMAIN self.risks}
    IN  [c \in cats |->
            LET ids == {k \in DOMAIN self.risks : Category(d, self.risks[k]) = c}
            IN  Accumulate(Zero, [k \in ids |-> self.risks[k].tx.amount], ids)]

\* Pool::MakeLevelSet: the outcomes the call can have.  For an arithmetic
\* Level and no risk, *levels.begin() and *levels.rbegin() read the end node
\* of an empty std::set: undefined behaviour, here a crash or any two values.
MakeLevelSet(d, self) ==
    LET levels == {GetLevel(d, self.risks[k]) : k \in DOMAIN self.risks}
    IN  IF d = "MutexPool"
        THEN {[crashed |-> FALSE, undefined |-> FALSE, levels |-> levels]}
        ELSE IF levels # {}
        THEN {[crashed |-> FALSE, undefined |-> FALSE,
               levels |-> levels \cup {Min(levels) - 1, Max(levels) + 1}]}
        ELSE {[crashed |-> TRUE, undefined |-> TRUE, levels |-> {}]} \cup
             {[crashed |-> FALSE, undefined |-> TRUE,
               levels |-> {min - 1, max + 1}] :
                  min \in IndeterminateLevels, max \in IndeterminateLevels}

\* the risks of the pool that win at level
Winners(d, self, level) ==
    {k \in DOMAIN self.risks : IsWinner(d, self.risks[k], level)}

PoolValueNoFee(self) == TotalPool(self)

\* total_pool_value = TotalPool()*(1.-fees)
PoolValue(self) == DMul(TotalPool(self), DSub(One, fees))

\* total_payout += winning_risk.tx.payout, over the winners
TotalPayout(winning_risks) ==
    Accumulate(Zero, [k \in DOMAIN winning_risks |-> winning_risks[k].tx.payout],
               DOMAIN winning_risks)

MutexPayoffInverted(total_pool_value, total_win_value) ==
    DDiv(total_win_value, total_pool_value)

\* winning_risk.payoff = ( total_pool_value / total_win_value )
MutexPayoff(total_pool_value, total_win_value) ==
    DDiv(total_pool_value, total_win_value)

\* the body of the loop of MutexPool::MakeWinningRisks for one winner
MutexWinningRisk(risk, total_pool_value, total_win_value, payoff) ==
    [risk EXCEPT !.pool_share = DDiv(risk.tx.amount, total_pool_value),
                 !.winnings_share = DDiv(risk.tx.amount, total_win_value),
                 !.payoff = payoff,
                 !.tx.payout = DMul(risk.tx.amount, payoff)]

\* the loop of MutexPool::MakeWinningRisks
MutexWinningRisks(self, level, total_pool_value, total_win_value) ==
    [k \in Winners("MutexPool", self, level) |->
        MutexWinningRisk(self.risks[k], total_pool_value, total_win_value,
                         MutexPayoff(total_pool_value, total_win_value))]

\* assert( Close( total_payout + Fees() , TotalPool() ) ) and the return
MutexReturn(self, winning_risks) ==
    [winning_risks |-> winning_risks,
     asserts |-> Close(DAdd(TotalPayout(winning_risks), Fees(self)),
                       TotalPool(self))]

\* MutexPool::MakeWinningRisks: the map returned and whether the assert holds
MutexMakeWinningRisks(self, level) ==
    MutexReturn(self,
                MutexWinningRisks(self, level, PoolValue(self),
                                  TotalWinningAmount("MutexPool", self, level)))

\* the body of the first loop of LongShortPool::MakeWinningRisks
PrimaFacie(risk, level, total_pool_value, total_win_value, prima_facie_payoff) ==
    [risk EXCEPT !.pool_share = DDiv(risk.tx.amount, total_pool_value),
                 !.winnings_share = DDiv(risk.tx.amount, total_win_value),
                 !.prima_facie_payoff = prima_facie_payoff,
                 !.prima_facie_payout = DMul(risk.tx.amount, prima_facie_payoff),
                 !.inverse_distance_to_the_pin =
                     WinningInverseDistance(risk, level)]

\* the first loop of LongShortPool::MakeWinningRisks: winning_risks after it
FirstLoop(self, level, total_pool_value, total_win_value) ==
    [k \in Winners("LongShortPool", self, level) |->
        PrimaFacie(self.risks[k], level, total_pool_value, total_win_value,
                   DDiv(total_pool_value, total_win_value))]

\* total_inverse_distance_to_pin after the first loop
TotalInverseDistanceToPin(winning_risks) ==
    Accumulate(Zero,
               [k \in DOMAIN winning_risks |->
                   winning_risks[k].inverse_distance_to_the_pin],
               DOMAIN winning_risks)

\* total_prima_facie_payout after the first loop
TotalPrimaFaciePayout(winning_risks) ==
    Accumulate(Zero,
               [k \in DOMAIN winning_risks |-> winning_risks[k].prima_facie_payout],
               DOMAIN winning_risks)

\* inverse_distance_to_pin_normalised = inverse_distance / total
Normalised(winning_risk, total_inverse_distance_to_pin) ==
    [winning_risk EXCEPT !.inverse_distance_to_pin_normalised =
        DDiv(winning_risk.inverse_distance_to_the_pin,
             total_inverse_distance_to_pin)]

AdjustedAmountOwnStake(winning_risk, total_win_value) ==
    [winning_risk EXCEPT !.adjusted_amount =
        DMul(winning_risk.inverse_distance_to_pin_normalised,
             winning_risk.tx.amount)]

\* adjusted_amount = inverse_distance_to_pin_normalised * total_win_value
AdjustedAmount(winning_risk, total_win_value) ==
    [winning_risk EXCEPT !.adjusted_amount =
        DMul(winning_risk.inverse_distance_to_pin_normalised, total_win_value)]

\* tx.payout = adjusted_amount * prima_facie_payoff
Payout(winning_risk) ==
    [winning_risk EXCEPT !.tx.payout =
        DMul(winning_risk.adjusted_amount, winning_risk.prima_facie_payoff)]

\* payoff = tx.payout / tx.amount
Payoff(winning_risk) ==
    [winning_risk EXCEPT !.payoff =
        DDiv(winning_risk.tx.payout, winning_risk.tx.amount)]

\* the second loop of LongShortPool::MakeWinningRisks: winning_risks after it
SecondLoop(winning_risks, total_inverse_distance_to_pin, total_win_value) ==
    [k \in DOMAIN winning_risks |->
        Payoff(Payout(AdjustedAmount(
            Normalised(winning_risks[k], total_inverse_distance_to_pin),
            total_win_value)))]

\* the two asserts of LongShortPool::MakeWinningRisks and the return
LongShortReturn(self, total_prima_facie_payout, winning_risks) ==
    [winning_risks |-> winning_risks,
     asserts |->
        /\ Close(DAdd(total_prima_facie_payout, Fees(self)), TotalPool(self))
        /\ Close(total_prima_facie_payout, TotalPayout(winning_risks))]

\* LongShortPool::MakeWinningRisks from the end of the first loop
LongShortReweight(self, first, total_win_value) ==
    LongShortReturn(self, TotalPrimaFaciePayout(first),
                    SecondLoop(first, TotalInverseDistanceToPin(first),
                               total_win_value))

\* LongShortPool::MakeWinningRisks from its two totals
LongShortSettle(self, level, total_pool_value, total_win_value) ==
    LongShortReweight(self,
                      FirstLoop(self, level, total_pool_value, total_win_value),
                      total_win_value)

\* LongShortPool::MakeWinningRisks: the map returned and whether both asserts
\* hold
LongShortMakeWinningRisks(self, level) ==
    LongShortSettle(self, level, PoolValue(self),
                    TotalWinningAmount("LongShortPool", self, level))

\* static_cast<D*>(this)->MakeWinningRisks( level )
MakeWinningRisks(d, self, level) ==
    IF d = "MutexPool" THEN MutexMakeWinningRisks(self, level)
    ELSE LongShortMakeWinningRisks(self, level)

\* try { return winning_risks.at( tx_id ); } catch (...) { return Risk{}; }
AtOrDefault(d, winning_risks, tx_id) ==
    IF tx_id \in DOMAIN winning_risks THEN winning_risks[tx_id]
    ELSE DefaultRisk(d)

\* Pool::ProFormaReturnHelper after its MakeRisk and its MakeWinningRisks
HelperReturn(d, made, settled) ==
    [self |-> made.self,
     asserts |-> settled.asserts,
     ret |-> AtOrDefault(d, settled.winning_risks, made.ret)]

\* Pool::ProFormaReturnHelper after its MakeRisk
HelperSettle(d, made, level) ==
    HelperReturn(d, made, MakeWinningRisks(d, made.self, level))

\* Pool::ProFormaReturnHelper: the pool after the call, the event returned and
\* whether the asserts of the settlement hold
ProFormaReturnHelper(d, self, event, amount, level) ==
    HelperSettle(d, MakeRisk(self, event, amount, "Hypothetical"), level)

\* the caller's pool and the result once the copy is destroyed
CopyDestroyed(self, helped) ==
    [self |-> self, asserts |-> helped.asserts, ret |-> helped.ret]

ProFormaReturnNoCopy(d, self, event, amount, level) ==
    ProFormaReturnHelper(d, self, event, amount, level)

\* Pool::ProFormaReturn: the helper runs on the copy pool{*this}
ProFormaReturn(d, self, event, amount, level) ==
    CopyDestroyed(self, ProFormaReturnHelper(d, self, event, amount, level))

\* auto b = ProFormaReturn( event, amount, level ); result[ level ] = b.payoff,
\* in the state acc of the loop; b keeps the local b of each level
CurvePoint(acc, level, b) ==
    [self |-> b.self,
     asserts |-> acc.asserts /\ b.asserts,
     b |-> (level :> b.ret) @@ acc.b,
     ret |-> (level :> b.ret.payoff) @@ acc.ret]

\* the loop of ForEachLevel with the lambda of ProFormaPayoffCurve, from the
\* state acc (the pool, the asserts so far, the curve so far)
RECURSIVE ForEachLevel(_, _, _, _, _)
ForEachLevel(d, acc, event, amount, levels) ==
    IF levels = {} THEN acc
    ELSE ForEachLevel(d,
                      CurvePoint(acc, CHOOSE l \in levels : TRUE,
                                 ProFormaReturn(d, acc.self, event, amount,
                                                CHOOSE l \in levels : TRUE)),
                      event, amount, levels \ {CHOOSE l \in levels : TRUE})

\* Pool::ProFormaPayoffCurve over the levels that MakeLevelSet returned: the
\* pool after the call, the curve and whether the asserts of every
\* settlement hold
ProFormaPayoffCurve(d, self, event, amount, levels) ==
    ForEachLevel(d, [self |-> self, asserts |-> TRUE, b |-> << >>,
                     ret |-> << >>],
                 event, amount, levels)

\* ------------------------------------------------------------ state

VARIABLES
    D,          \* the kind of the pool: MutexPool or LongShortPool
    ndebug,     \* the build: TRUE when NDEBUG compiles the asserts out
    tx,         \* Pool::tx, the TxId counter
    risks,      \* Pool::risks, the map TxId -> Risk
    status,     \* "running", "aborted" (a failed assert) or "crashed"
    call        \* the call on the pool that the caller holds the result of:
                \* op, arguments, result; Caller between two calls

vars == <<D, ndebug, tx, risks, status, call>>

\* the pool object
this == [tx |-> tx, risks |-> risks]

Clients == {"barney"}

\* the caller is between two statements: it holds no result
Caller == [op |-> "main", outcome |-> "returned"]

Init ==
    /\ D \in PoolKinds
    /\ ndebug \in BOOLEAN
    /\ tx = 0
    /\ risks = << >>
    /\ status = "running"
    /\ call = Caller
    /\ call = Caller

\* the state after a call whose asserts evaluate to holds: abort() in a build
\* that keeps the asserts
AfterAssert(holds) == IF ~ndebug /\ ~holds THEN "aborted" ELSE "running"

\* how a call ended that left the program in the state after
Outcome(after) ==
    IF after = "aborted" THEN "assert_failed"
    ELSE IF after = "crashed" THEN "crashed"
    ELSE "returned"

CallMakeRisk ==
    /\ status = "running"
    /\ call = Caller
    /\ tx < MaxRisks
    /\ \E event \in Events(D), amount \in Amounts, who \in Clients :
          \E made \in {MakeRisk(this, event, Double(amount), who)} :
              /\ tx' = made.self.tx
              /\ risks' = made.self.risks
              /\ call' = [op |-> "MakeRisk", outcome |-> "returned", event |-> event,
                          amount |-> Double(amount), who |-> who,
                          ret |-> made.ret]
    /\ UNCHANGED <<D, ndebug, status>>

CallTotalPool ==
    /\ status = "running"
    /\ call = Caller
    /\ call' = [op |-> "TotalPool", outcome |-> "returned", ret |-> TotalPool(this)]
    /\ UNCHANGED <<D, ndebug, tx, risks, status>>

CallTotalWinningAmount ==
    /\ status = "running"
    /\ call = Caller
    /\ \E level \in Levels(D) :
          call' = [op |-> "TotalWinningAmount", outcome |-> "returned",
                   level |-> level, ret |-> TotalWinningAmount(D, this, level)]
    /\ UNCHANGED <<D, ndebug, tx, risks, status>>

CallFees ==
    /\ status = "running"
    /\ call = Caller
    /\ call' = [op |-> "Fees", outcome |-> "returned", ret |-> Fees(this)]
    /\ UNCHANGED <<D, ndebug, tx, risks, status>>

CallCategoryMap ==
    /\ status = "running"
    /\ call = Caller
    /\ call' = [op |-> "CategoryMap", outcome |-> "returned",
                ret |-> CategoryMap(D, this)]
    /\ UNCHANGED <<D, ndebug, tx, risks, status>>

CallMakeLevelSet ==
    /\ status = "running"
    /\ call = Caller
    /\ \E made \in MakeLevelSet(D, this) :
          /\ status' = IF made.crashed THEN "crashed" ELSE "running"
          /\ call' = [op |-> "MakeLevelSet", outcome |-> Outcome(status'),
                      undefined |-> made.undefined, ret |-> made.levels]
    /\ UNCHANGED <<D, ndebug, tx, risks>>

\* MakeWinningRisks of the pool kind D at level
Settle(level) ==
    \E settled \in {MakeWinningRisks(D, this, level)} :
        /\ status' = AfterAssert(settled.asserts)
        /\ call' = [op |-> "MakeWinningRisks",
                    outcome |-> Outcome(status'),
                    level |-> level, asserts |-> settled.asserts,
                    ret |-> settled.winning_risks]
        /\ UNCHANGED <<D, ndebug, tx, risks>>

CallMutexMakeWinningRisks ==
    /\ status = "running"
    /\ call = Caller
    /\ D = "MutexPool"
    /\ \E level \in Categories : Settle(level)

CallLongShortMakeWinningRisks ==
    /\ status = "running"
    /\ call = Caller
    /\ D = "LongShortPool"
    /\ \E level \in ClosingPrices : Settle(level)

CallProFormaReturnHelper ==
    /\ status = "running"
    /\ call = Caller
    /\ tx < MaxRisks
    /\ \E event \in Events(D), amount \in ProFormaAmounts, level \in Levels(D) :
          \E helped \in {ProFormaReturnHelper(D, this, event, Double(amount),
                                               level)} :
              /\ tx' = helped.self.tx
              /\ risks' = helped.self.risks
              /\ status' = AfterAssert(helped.asserts)
              /\ call' = [op |-> "ProFormaReturnHelper",
                          outcome |-> Outcome(status'),
                          event |-> event, amount |-> Double(amount),
                          level |-> level, asserts |-> helped.asserts,
                          ret |-> helped.ret]
    /\ UNCHANGED <<D, ndebug>>

CallProFormaReturn ==
    /\ status = "running"
    /\ call = Caller
    /\ \E event \in Events(D), amount \in ProFormaAmounts, level \in Levels(D) :
          \E b \in {ProFormaReturn(D, this, event, Double(amount), level)} :
              /\ tx' = b.self.tx
              /\ risks' = b.self.risks
              /\ status' = AfterAssert(b.asserts)
              /\ call' = [op |-> "ProFormaReturn",
                          outcome |-> Outcome(status'),
                          event |-> event, amount |-> Double(amount),
                          level |-> level, asserts |-> b.asserts,
                          ret |-> b.ret]
    /\ UNCHANGED <<D, ndebug>>

CallProFormaPayoffCurve ==
    /\ status = "running"
    /\ call = Caller
    /\ \E event \in Events(D), amount \in ProFormaAmounts,
          made \in MakeLevelSet(D, this) :
          \E curve \in {ProFormaPayoffCurve(D, this, event, Double(amount),
                                             made.levels)} :
              /\ tx' = curve.self.tx
              /\ risks' = curve.self.risks
              /\ status' = IF made.crashed THEN "crashed"
                           ELSE AfterAssert(curve.asserts)
              /\ call' = [op |-> "ProFormaPayoffCurve",
                          outcome |-> Outcome(status'),
                          event |-> event, amount |-> Double(amount),
                          undefined |-> made.undefined,
                          levels |-> made.levels,
                          asserts |-> curve.asserts, b |-> curve.b,
                          ret |-> curve.ret]
    /\ UNCHANGED <<D, ndebug>>

\* the caller goes on to its next statement
Continue ==
    /\ status = "running"
    /\ call # Caller
    /\ call' = Caller
    /\ UNCHANGED <<D, ndebug, tx, risks, status>>

Next ==
    \/ Continue
    \/ CallMakeRisk
    \/ CallTotalPool
    \/ CallTotalWinningAmount
    \/ CallFees
    \/ CallCategoryMap
    \/ CallMakeLevelSet
    \/ CallMutexMakeWinningRisks
    \/ CallLongShortMakeWinningRisks
    \/ CallProFormaReturnHelper
    \/ CallProFormaReturn
    \/ CallProFormaPayoffCurve

Spec == Init /\ [][Next]_vars

\* ------------------------------------------------------------ claims

\* every stored stake has an amount >= 0, as a StakeRecord requires
AmountsNotNegative ==
    \A k \in DOMAIN risks : DGeq(risks[k].tx.amount, Zero)

\* the caller holds the result of a settlement of a pool of kind d
Settled(d) == D = d /\ call.op = "MakeWinningRisks"

\* some stake of a positive amount wins at level
PositiveWinner(level) ==
    \E k \in DOMAIN risks :
        IsWinner(D, risks[k], level) /\ DLess(Zero, risks[k].tx.amount)

\* the sum of field over the events of the map returned
RECURSIVE SumOf(_, _, _)
SumOf(ret, field, ids) ==
    IF ids = {} THEN Zero
    ELSE LET k == CHOOSE i \in ids : TRUE
         IN  DAdd(IF field = "payout" THEN ret[k].tx.payout
                  ELSE ret[k].prima_facie_payout,
                  SumOf(ret, field, ids \ {k}))

C3_NoWinningStake ==
    (call.op = "MakeWinningRisks"
        /\ DEq(TotalWinningAmount(D, this, call.level), Zero))
    => call.outcome = "NoWinningStake"

\* |closing price - strike| of the winner k of the settlement returned
DistanceToPin(k) == Abs(call.level - call.ret[k].price)

\* C4 as claimed: distance monotonicity for all stake amounts.  Among the
\* winners of a Long/Short settlement of positive amounts, a strictly smaller
\* distance to the closing price has a payoff at least as great.
C4_DistanceMonotonicityAnyAmounts ==
    (Settled("LongShortPool") /\ call.outcome = "returned"
        /\ \A k \in DOMAIN risks : DLess(Zero, risks[k].tx.amount))
    => \A a \in DOMAIN call.ret, b \in DOMAIN call.ret :
          DistanceToPin(a) < DistanceToPin(b)
          => DGeq(call.ret[a].payoff, call.ret[b].payoff)

\* C4 as amended: in a Long/Short settlement of stakes with amounts >= 0, for
\* winners a and b with a strictly nearer to the closing price than b and
\* 0 < amount(a) <= amount(b), payoff(a) >= payoff(b).
C4_DistanceMonotonicity ==
    (Settled("LongShortPool") /\ call.outcome = "returned" /\ AmountsNotNegative)
    => \A a \in DOMAIN call.ret, b \in DOMAIN call.ret :
          (/\ DistanceToPin(a) < DistanceToPin(b)
           /\ DLess(Zero, call.ret[a].tx.amount)
           /\ DGeq(call.ret[b].tx.amount, call.ret[a].tx.amount))
          => DGeq(call.ret[a].payoff, call.ret[b].payoff)

\* a Long/Short settlement with a winner of amount 1 nearer to the closing
\* price than a winner of amount 3, and a strictly greater payoff
C4_Witness ==
    /\ Settled("LongShortPool")
    /\ call.outcome = "returned"
    /\ AmountsNotNegative
    /\ \E a \in DOMAIN call.ret, b \in DOMAIN call.ret :
          /\ DistanceToPin(a) < DistanceToPin(b)
          /\ DLess(Zero, call.ret[a].tx.amount)
          /\ DLess(call.ret[a].tx.amount, call.ret[b].tx.amount)
          /\ DLess(call.ret[b].payoff, call.ret[a].payoff)

\* the pool object after a step
thisAfter == [tx |-> tx', risks |-> risks']

\* C5: pro-forma non-mutation.  A step of ProFormaReturn or of
\* ProFormaPayoffCurve, however it ends, leaves TotalPool(), every
\* TotalWinningAmount(L), the set of stake ids, the stakes and the next-id
\* counter of the pool as they were.
C5_ProFormaNonMutation ==
    [][call'.op \in {"ProFormaReturn", "ProFormaPayoffCurve"}
       => /\ tx' = tx
          /\ DOMAIN risks' = DOMAIN risks
          /\ risks' = risks
          /\ TotalPool(thisAfter) = TotalPool(this)
          /\ \A level \in Levels(D) :
                TotalWinningAmount(D, thisAfter, level)
                    = TotalWinningAmount(D, this, level)]_vars

\* a ProFormaReturn on a pool with stakes that returned the winning
\* hypothetical event, whose id is not stored in the pool
C5_Witness ==
    /\ call.op = "ProFormaReturn"
    /\ call.outcome = "returned"
    /\ tx > 0
    /\ call.ret.tx.client_account = "Hypothetical"
    /\ call.ret.tx.id \notin DOMAIN risks

\* C6: flat odds.  Every stake in the result of a Mutex settlement has the
\* payoff TotalPool()*(1-fees) / TotalWinningAmount(level) and the payout
\* amount * payoff, and the result holds exactly the stakes whose category is
\* the closing category.
C6_FlatOdds ==
    (Settled("MutexPool") /\ call.outcome = "returned")
    => /\ DOMAIN call.ret = {k \in DOMAIN risks : risks[k].event = call.level}
       /\ \A k \in DOMAIN call.ret :
             /\ DEq(call.ret[k].payoff,
                    DDiv(DMul(TotalPool(this), Ratio(97, 100)),
                         TotalWinningAmount(D, this, call.level)))
             /\ DEq(call.ret[k].tx.payout,
                    DMul(call.ret[k].tx.amount, call.ret[k].payoff))
             /\ \A j \in DOMAIN call.ret :
                   DEq(call.ret[k].payoff, call.ret[j].payoff)

\* C7: a registration with a negative amount ends in the error InvalidAmount
\* and leaves the pool as it was.
C7_InvalidAmount ==
    [][(call'.op = "MakeRisk" /\ DLess(call'.amount, Zero))
       => /\ call'.outcome = "InvalidAmount"
          /\ tx' = tx
          /\ risks' = risks
          /\ TotalPool(thisAfter) = TotalPool(this)]_vars

\* C8: ledger ids.  The counter tx is the number of stored stakes, the stored
\* ids are 0 .. tx-1, each stake is stored under its tx.id, a registration
\* returns the id tx-1 of the stake it stored (the k-th returns k-1), and no
\* step removes or overwrites a stored stake.
C8_LedgerIds ==
    /\ [](/\ tx = Cardinality(DOMAIN risks)
          /\ DOMAIN risks = 0 .. (tx - 1)
          /\ \A k \in DOMAIN risks : risks[k].tx.id = k
          /\ call.op = "MakeRisk" => call.ret = tx - 1)
    /\ [][/\ tx' >= tx
          /\ \A k \in DOMAIN risks : k \in DOMAIN risks' /\ risks'[k] = risks[k]
          /\ call'.op \in {"MakeRisk", "ProFormaReturnHelper"}
                => /\ tx' = tx + 1
                   /\ DOMAIN risks' = DOMAIN risks \cup {tx}
                   /\ risks'[tx].tx.id = tx]_vars

\* a MakeRisk that returned id 1 after the registration of a hypothetical
\* stake by ProFormaReturnHelper under id 0
C8_Witness ==
    /\ call.op = "MakeRisk"
    /\ call.ret = 1
    /\ tx = 2
    /\ risks[0].tx.client_account = "Hypothetical"

\* the level keys of the stored stakes
LevelKeys == {GetLevel(D, risks[k]) : k \in DOMAIN risks}

\* C9: level enumeration.  MakeLevelSet returns the distinct level keys of
\* the stakes, for the Long/Short pool with min-1 and max+1 added; on a pool
\* without stakes it returns the empty set, for both pool kinds, and reads no
\* minimum or maximum of an empty set.
C9_LevelEnumeration ==
    call.op = "MakeLevelSet"
    => /\ call.outcome = "returned"
       /\ ~call.undefined
       /\ call.ret =
             IF D = "MutexPool" \/ LevelKeys = {} THEN LevelKeys
             ELSE LevelKeys \cup {Min(LevelKeys) - 1, Max(LevelKeys) + 1}

\* the hypothetical stake of the ProFormaReturn wins at the level of the call
HypotheticalWins == IsWinner(D, call.event, call.level)

\* C10: hypothetical settlement.  ProFormaReturn returns the settled event of
\* the hypothetical stake (id = the pool's next id, owner "Hypothetical", the
\* amount given) when that stake wins at the level, and the zero-valued event
\* whenever it does not win; it returns in both cases.
C10_HypotheticalSettlement ==
    call.op = "ProFormaReturn"
    => /\ call.outcome = "returned"
       /\ HypotheticalWins
             => /\ call.ret.tx.id = tx
                /\ call.ret.tx.client_account = "Hypothetical"
                /\ call.ret.tx.amount = call.amount
                /\ GetLevel(D, call.ret) = GetLevel(D, call.event)
       /\ ~HypotheticalWins
             => /\ call.ret.payoff = Zero
                /\ call.ret.tx.payout = Zero
                /\ call.ret.tx.amount = Zero

\* the levels of the stored stakes as the level enumeration is specified:
\* the level keys, for the Long/Short pool with a fringe level on each side,
\* and no level for a pool without stakes
EnumeratedLevels ==
    IF D = "MutexPool" \/ LevelKeys = {} THEN LevelKeys
    ELSE LevelKeys \cup {Min(LevelKeys) - 1, Max(LevelKeys) + 1}

\* the pool that consists of the stored stakes and the hypothetical stake of
\* the call
WithHypothetical == MakeRisk(this, call.event, call.amount, "Hypothetical").self

\* the hypothetical stake of the call, settled with the stored stakes at level
HypotheticalSettled(level) ==
    MakeWinningRisks(D, WithHypothetical, level).winning_risks[tx]

\* the entry of the curve at level is the payoff of the hypothetical stake in
\* the settlement at level, 0 when it does not win there, and the stake was
\* valued under the pool's next id
CurveEntry(level) ==
    IF IsWinner(D, call.event, level)
    THEN /\ call.ret[level] = HypotheticalSettled(level).payoff
         /\ call.b[level].tx.id = tx
         /\ call.b[level].tx.client_account = "Hypothetical"
    ELSE call.ret[level] = Zero

\* C11: payoff curve.  ProFormaPayoffCurve returns a map with one entry for
\* every level of the level enumeration of the stored stakes; the entry at a
\* level is the payoff of the hypothetical stake when the stored stakes and
\* that stake are settled at the level (0 when it does not win there), and
\* the hypothetical stake has the same id, the pool's next id, at every level.
C11_PayoffCurve ==
    call.op = "ProFormaPayoffCurve"
    => /\ call.outcome = "returned"
       /\ ~call.undefined
       /\ DOMAIN call.ret = EnumeratedLevels
       /\ \A level \in DOMAIN call.ret : CurveEntry(level)

====
